---------------------------- MODULE Spec2Model ----------------------------
(* The GitHub webhook ingestion pipeline of src/Api: signature check,      *)
(* event filtering, payload normalisation and the upsert of PullRequest    *)
(* and File rows, together with POST /prs and the init_db seeding script.  *)
(* In Spec one request is in flight at a time: it is received, handled to  *)
(* completion against the committed tables, and its response is sent.  In  *)
(* ConcSpec two deliveries are handled by two server processes, which take *)
(* turns between the store statements of handle_pull_request_event.        *)
EXTENDS Integers, FiniteSets, Sequences, TLC

VARIABLES
    secret_token,   \* webhook_handler.secret_token
    prs,            \* committed rows of table pull_requests
    files,          \* committed rows of table files
    next_file_id,   \* the files.id sequence
    now,            \* the time: it advances with every request that reads
                    \* datetime.now(timezone.utc) or reaches the store
    pc,             \* "idle", "received" or "responded"
    req,            \* the request in flight
    resp,           \* the response to it
    session         \* what the SQLAlchemy session of a handler that is
                    \* between two store statements holds

vars ==
    <<secret_token, prs, files, next_file_id, now, pc, req, resp, session>>

(* ------------------------------ bounds --------------------------------- *)

\* Number of requests that read the clock or reach the store.
MaxClock == 2

(* ------------------------------ values --------------------------------- *)

\* A key that a JSON object or the header set does not hold.
Absent == "<absent>"

\* dict.get(key, default) on a string-valued key.
Get(v, default) == IF v = Absent THEN default ELSE v

SECRET_TOKEN == "test_secret_token"
WRONG_SECRET == "wrong_secret"

Repositories == {"acme/app", "my-awesome-app"}
PrNumbers == {42, 123}

HandledActions == {"opened", "synchronize", "reopened", "closed"}

\* Times are integers: processing times are 1 .. MaxClock, and a payload
\* carries 0, before every processing time, or MaxClock + 1, after every one.
\* A timestamp key, like the number key, is modelled by the set holding its
\* value, empty when the key is absent or, for a timestamp, its text does
\* not parse.

(* --------------------------- request bodies ---------------------------- *)

\* The JSON object of a body.  pull_request is "absent", "empty" ({} or
\* null) or "object"; the keys below it are read only when it is an object.
\* A timestamp key of the pull_request object: "absent" (no such key),
\* "null" (JSON null), "text" (a string that is not ISO 8601), "number" (a
\* number other than 0) or "iso" (the ISO 8601 text of the instant at).
Stamp(kind, at) == [kind |-> kind, at |-> at]

Iso(at) == Stamp("iso", at)

NoStamp(kind) == Stamp(kind, 0)

Payload(action, pull_request, title, login, full_name, number, state, created_at, updated_at, closed_at, merged_at) ==
    [action |-> action, pull_request |-> pull_request, title |-> title,
     login |-> login, full_name |-> full_name, number |-> number,
     state |-> state, created_at |-> created_at, updated_at |-> updated_at,
     closed_at |-> closed_at, merged_at |-> merged_at]

NoPayload ==
    Payload(Absent, "absent", Absent, Absent, Absent, {}, Absent,
            NoStamp("absent"), NoStamp("absent"), NoStamp("absent"),
            NoStamp("absent"))

\* The raw body: "empty" (no bytes), "invalid_utf8" (bytes json.loads
\* cannot decode), "malformed" (text that is not JSON), "array" (JSON that
\* is not an object) or "object".
Body(kind, payload) == [kind |-> kind, payload |-> payload]

EmptyBody == Body("empty", NoPayload)

(* ------------------------ PRStatus, status_mapping --------------------- *)

PRStatus == {"open", "closed", "merged"}

\* The provider state stored as it comes, without the mapping.
status_unmapped(state) == Get(state, "open")

status_mapping(state) ==
    IF Get(state, "open") \in PRStatus THEN Get(state, "open") ELSE "open"

(* -------------------------- signature verifier ------------------------- *)

\* GitHubWebhookHandler.__init__: secret_token or os.getenv(..., "").
HandlerInit(secret_arg, env) == IF secret_arg # "" THEN secret_arg ELSE env

\* f"sha256={hmac.new(key, payload, sha256).hexdigest()}": the keyed hash is
\* taken to be injective in (key, payload), so the header is the pair itself.
generate_signature(payload, secret) ==
    [kind |-> "sha256", key |-> secret, msg |-> payload]

\* A header that is not of that form: "absent", "empty", or some other text,
\* "ascii" or "non_ascii".
OtherHeader(kind) == [kind |-> kind, key |-> "", msg |-> EmptyBody]

\* A verifier that compares the key of the header and not the body signed.
verify_key_only(secret, signature, payload) ==
    IF secret = "" THEN "accept"
    ELSE IF signature.kind \in {"absent", "empty"} THEN "reject"
    ELSE IF signature.kind = "non_ascii" THEN "raise"
    ELSE IF signature.kind = "sha256" /\ signature.key = secret
    THEN "accept"
    ELSE "reject"

\* A verifier that looks for the header before it looks at the secret.
verify_header_first(secret, signature, payload) ==
    IF signature.kind \in {"absent", "empty"} THEN "reject"
    ELSE IF secret = "" THEN "accept"
    ELSE IF signature.kind = "non_ascii" THEN "raise"
    ELSE IF signature = generate_signature(payload, secret) THEN "accept"
    ELSE "reject"

\* "accept", "reject", or "raise": hmac.compare_digest raises TypeError on a
\* str argument with non-ASCII characters.
verify_signature(secret, signature, payload) ==
    IF secret = "" THEN "accept"
    ELSE IF signature.kind \in {"absent", "empty"} THEN "reject"
    ELSE IF signature.kind = "non_ascii" THEN "raise"
    ELSE IF signature = generate_signature(payload, secret) THEN "accept"
    ELSE "reject"

(* --------------------------- payload normaliser ------------------------ *)

\* The exception that datetime.fromisoformat(value.replace("Z", "+00:00"))
\* raises on the value of a timestamp key, "" when it returns: None and
\* numbers have no replace, "" (the default of an absent key) and other
\* text are not ISO 8601.
fromisoformat_raises(raw) ==
    CASE raw.kind = "iso" -> ""
      [] raw.kind \in {"null", "number"} -> "AttributeError"
      [] OTHER -> "ValueError"

\* A created_at or updated_at that falls back to the epoch.
parse_date_epoch(raw, t) ==
    IF fromisoformat_raises(raw) \in {"ValueError", "AttributeError"}
    THEN 0
    ELSE raw.at

\* Lines 64-74: created_at and updated_at, with
\* except (ValueError, AttributeError): datetime.now(timezone.utc).
parse_date(raw, t) ==
    IF fromisoformat_raises(raw) \in {"ValueError", "AttributeError"}
    THEN t
    ELSE raw.at

\* Lines 77-90: closed_at and merged_at start as None ({}), are parsed when
\* pr_data.get(...) is truthy, and stay None when the parse raises.
parse_optional_date(raw) ==
    IF raw.kind \in {"absent", "null"}
    THEN {}
    ELSE IF fromisoformat_raises(raw) \in {"ValueError", "AttributeError"}
    THEN {}
    ELSE {raw.at}

NoData ==
    [title |-> "", status |-> "open", author |-> "", repository |-> "",
     pr_number |-> 0, created_at |-> 0, updated_at |-> 0,
     closed_at |-> {}, merged_at |-> {}]

ParseError(msg, field) ==
    [ok |-> FALSE, error |-> msg, names |-> {field}, data |-> NoData,
     read_clock |-> FALSE]

\* A normaliser whose author check raises the message of the title check.
parse_author_as_title(payload, t) ==
    IF payload.pull_request # "object"
    THEN ParseError("Pull request data is missing or empty", "pull_request")
    ELSE IF Get(payload.title, "") = ""
    THEN ParseError("Pull request title is missing", "title")
    ELSE IF Get(payload.login, "") = ""
    THEN ParseError("Pull request title is missing", "title")
    ELSE IF Get(payload.full_name, "") = ""
    THEN ParseError("Repository information is missing", "repository")
    ELSE IF payload.number = {}
    THEN ParseError("Pull request number is missing", "pr_number")
    ELSE
        [ok |-> TRUE, error |-> "", names |-> {},
         data |->
            [title |-> payload.title,
             status |-> status_mapping(payload.state),
             author |-> payload.login,
             repository |-> payload.full_name,
             pr_number |-> CHOOSE n \in payload.number : TRUE,
             created_at |-> parse_date(payload.created_at, t),
             updated_at |-> parse_date(payload.updated_at, t),
             closed_at |-> parse_optional_date(payload.closed_at),
             merged_at |-> parse_optional_date(payload.merged_at)],
         read_clock |-> fromisoformat_raises(payload.created_at) # ""
                        \/ fromisoformat_raises(payload.updated_at) # ""]

\* parse_pull_request_data(payload) at processing time t.
parse_pull_request_data(payload, t) ==
    IF payload.pull_request # "object"
    THEN ParseError("Pull request data is missing or empty", "pull_request")
    ELSE IF Get(payload.title, "") = ""
    THEN ParseError("Pull request title is missing", "title")
    ELSE IF Get(payload.login, "") = ""
    THEN ParseError("Pull request author is missing", "author")
    ELSE IF Get(payload.full_name, "") = ""
    THEN ParseError("Repository information is missing", "repository")
    ELSE IF payload.number = {}
    THEN ParseError("Pull request number is missing", "pr_number")
    ELSE
        [ok |-> TRUE, error |-> "", names |-> {},
         data |->
            [title |-> payload.title,
             status |-> status_mapping(payload.state),
             author |-> payload.login,
             repository |-> payload.full_name,
             pr_number |-> CHOOSE n \in payload.number : TRUE,
             created_at |-> parse_date(payload.created_at, t),
             updated_at |-> parse_date(payload.updated_at, t),
             closed_at |-> parse_optional_date(payload.closed_at),
             merged_at |-> parse_optional_date(payload.merged_at)],
         read_clock |-> fromisoformat_raises(payload.created_at) # ""
                        \/ fromisoformat_raises(payload.updated_at) # ""]

(* ------------------------------ the store ------------------------------ *)

\* A comparison on pr_number that never matches, as when the column and the
\* value compared with it differ in type.
PrNumberNeverEq(a, b) == FALSE

\* Comparison on the integer column pull_requests.pr_number.
PrNumberEq(a, b) == a = b

\* A lookup that leaves out the repository.
SelectPRByNumber(table, repository, pr_number) ==
    {r \in table : PrNumberEq(r.pr_number, pr_number)}

\* select(PullRequest).where(pr_number == ..., repository == ...).
SelectPR(table, repository, pr_number) ==
    {r \in table : PrNumberEq(r.pr_number, pr_number)
                    /\ r.repository = repository}

\* A pr_number column declared without unique=True: no insert is refused.
NoUniqueViolation(table, row) == FALSE

\* pr_number: int = Field(unique=True): the insert of row is refused.
UniqueViolation(table, row) ==
    \E r \in table : PrNumberEq(r.pr_number, row.pr_number)

\* id: Optional[int] = Field(default=None, primary_key=True).  No row of
\* pull_requests is ever deleted, so the next id is the row count plus one.
NextPrId(table) == Cardinality(table) + 1

\* PullRequest(**pr_data), with the id the insert assigns.
NewPullRequest(data, id) ==
    [id |-> id, title |-> data.title, status |-> data.status,
     author |-> data.author, repository |-> data.repository,
     pr_number |-> data.pr_number, created_at |-> data.created_at,
     updated_at |-> data.updated_at, closed_at |-> data.closed_at,
     merged_at |-> data.merged_at]

\* An update that ends with the setattr loop, so that updated_at is the one
\* parsed from the payload.
UpdatedFromPayloadOnly(existing, data, t) ==
    [existing EXCEPT !.title = data.title, !.status = data.status,
                     !.author = data.author,
                     !.created_at = data.created_at,
                     !.updated_at = data.updated_at,
                     !.closed_at = data.closed_at,
                     !.merged_at = data.merged_at]

\* The setattr loop over pr_data, which skips id, pr_number and repository,
\* followed by existing_pr.updated_at = datetime.now(timezone.utc).
UpdatedPullRequest(existing, data, t) ==
    [existing EXCEPT !.title = data.title, !.status = data.status,
                     !.author = data.author,
                     !.created_at = data.created_at,
                     !.closed_at = data.closed_at,
                     !.merged_at = data.merged_at, !.updated_at = t]

\* A placeholder that counts itself as one changed line of an added file.
placeholder_file_counted(id, pr_id) ==
    [id |-> id, pull_request_id |-> pr_id, filename |-> "files_updated",
     status |-> "added", additions |-> 1, deletions |-> 0, changes |-> 1]

\* A placeholder whose owner is taken from the wrong key.
placeholder_file_misowned(id, pr_id) ==
    [id |-> id, pull_request_id |-> id, filename |-> "files_updated",
     status |-> "modified", additions |-> 0, deletions |-> 0, changes |-> 0]

\* File(filename="files_updated", ..., pull_request_id=pr_id).
placeholder_file(id, pr_id) ==
    [id |-> id, pull_request_id |-> pr_id, filename |-> "files_updated",
     status |-> "modified", additions |-> 0, deletions |-> 0, changes |-> 0]

\* select(File).where(File.pull_request_id == pr_id).
FilesOf(table, pr_id) == {f \in table : f.pull_request_id = pr_id}

Db(p, f, n) == [prs |-> p, files |-> f, next_file_id |-> n]

(* ----------------------------- upsert engine --------------------------- *)

required_fields == {"title", "author", "repository", "pr_number"}

\* [field for field in required_fields if not pr_data.get(field)].
missing_fields(data) ==
    {f \in required_fields \ {"pr_number"} : data[f] = ""}
        \cup (IF data.pr_number = 0 THEN {"pr_number"} ELSE {})

\* A file step whose delete is committed before the insert is attempted.
handle_files_partial(action, existing, pr_id, db, fault) ==
    IF action \in {"opened", "synchronize", "reopened"}
       /\ (existing = {} \/ action = "synchronize")
    THEN [files |->
             (IF existing # {} THEN db.files \ FilesOf(db.files, pr_id)
              ELSE db.files)
                 \cup (IF fault = "file_step" THEN {}
                       ELSE {placeholder_file(db.next_file_id, pr_id)}),
          next_file_id |->
             IF fault = "file_step" THEN db.next_file_id
             ELSE db.next_file_id + 1,
          warning |-> fault = "file_step"]
    ELSE [files |-> db.files, next_file_id |-> db.next_file_id,
          warning |-> FALSE]

\* A file step that deletes without the where clause on pull_request_id.
handle_files_delete_all(action, existing, pr_id, db, fault) ==
    IF action \in {"opened", "synchronize", "reopened"}
       /\ (existing = {} \/ action = "synchronize")
    THEN IF fault = "file_step"
         THEN [files |-> db.files, next_file_id |-> db.next_file_id,
               warning |-> TRUE]
         ELSE [files |->
                  (IF existing # {} THEN {} ELSE db.files)
                      \cup {placeholder_file(db.next_file_id, pr_id)},
               next_file_id |-> db.next_file_id + 1,
               warning |-> FALSE]
    ELSE [files |-> db.files, next_file_id |-> db.next_file_id,
          warning |-> FALSE]

\* A file step without the test of line 252: it replaces the files on every
\* opened, synchronize and reopened event.
handle_files_every_event(action, existing, pr_id, db, fault) ==
    IF action \in {"opened", "synchronize", "reopened"}
    THEN IF fault = "file_step"
         THEN [files |-> db.files, next_file_id |-> db.next_file_id,
               warning |-> TRUE]
         ELSE [files |->
                  (IF existing # {} THEN db.files \ FilesOf(db.files, pr_id)
                   ELSE db.files)
                      \cup {placeholder_file(db.next_file_id, pr_id)},
               next_file_id |-> db.next_file_id + 1,
               warning |-> FALSE]
    ELSE [files |-> db.files, next_file_id |-> db.next_file_id,
          warning |-> FALSE]

\* A file step whose action test names every handled action, "closed" too.
handle_files_on_closed(action, existing, pr_id, db, fault) ==
    IF action \in HandledActions
       /\ (existing = {} \/ action = "synchronize")
    THEN IF fault = "file_step"
         THEN [files |-> db.files, next_file_id |-> db.next_file_id,
               warning |-> TRUE]
         ELSE [files |->
                  (IF existing # {} THEN db.files \ FilesOf(db.files, pr_id)
                   ELSE db.files)
                      \cup {placeholder_file(db.next_file_id, pr_id)},
               next_file_id |-> db.next_file_id + 1,
               warning |-> FALSE]
    ELSE [files |-> db.files, next_file_id |-> db.next_file_id,
          warning |-> FALSE]

\* Lines 247-275: the file step of one event, which commits on its own.  A
\* failure anywhere in it rolls back the step alone and prints a warning.
handle_files(action, existing, pr_id, db, fault) ==
    IF action \in {"opened", "synchronize", "reopened"}
       /\ (existing = {} \/ action = "synchronize")
    THEN IF fault = "file_step"
         THEN [files |-> db.files, next_file_id |-> db.next_file_id,
               warning |-> TRUE]
         ELSE [files |->
                  (IF existing # {} THEN db.files \ FilesOf(db.files, pr_id)
                   ELSE db.files)
                      \cup {placeholder_file(db.next_file_id, pr_id)},
               next_file_id |-> db.next_file_id + 1,
               warning |-> FALSE]
    ELSE [files |-> db.files, next_file_id |-> db.next_file_id,
          warning |-> FALSE]

\* What handle_pull_request_event hands back: a returned dict ("ignored" or
\* "success") or a raised ValueError ("raise"), with the tables as committed.
Outcome(outcome, error, names, message, pr_id, pr_number, action, db, read_clock, warning) ==
    [outcome |-> outcome, error |-> error, names |-> names,
     message |-> message, pr_id |-> pr_id, pr_number |-> pr_number,
     action |-> action, db |-> db, read_clock |-> read_clock,
     warning |-> warning]

Raised(error, names, db, read_clock) ==
    Outcome("raise", error, names, "", 0, 0, "", db, read_clock, FALSE)

\* An upsert that treats a failed PR commit as it treats a failed file step:
\* it rolls back, prints a warning and returns the success dict.
upsert_swallow(action, data, existing, db, t, fault) ==
    IF existing # {}
    THEN LET old == CHOOSE r \in existing : TRUE
             new == UpdatedPullRequest(old, data, t)
             db1 == Db((db.prs \ {old}) \cup {new}, db.files,
                       db.next_file_id)
             fs  == handle_files(action, existing, old.id, db1, fault)
         IN  IF fault = "pr_commit"
             THEN Outcome("success", "", {}, "Updated", old.id,
                          data.pr_number, action, db, TRUE, FALSE)
             ELSE Outcome("success", "", {}, "Updated", old.id,
                          data.pr_number, action,
                          Db(db1.prs, fs.files, fs.next_file_id), TRUE,
                          fs.warning)
    ELSE LET new == NewPullRequest(data, NextPrId(db.prs))
             db1 == Db(db.prs \cup {new}, db.files, db.next_file_id)
             fs  == handle_files(action, existing, new.id, db1, fault)
         IN  IF fault = "pr_commit" \/ UniqueViolation(db.prs, new)
             THEN Raised("Failed to create new PR", {}, db, TRUE)
             ELSE Outcome("success", "", {}, "Created", new.id,
                          data.pr_number, action,
                          Db(db1.prs, fs.files, fs.next_file_id), TRUE,
                          fs.warning)

\* An upsert that deletes the stored row when the event closes the PR.
upsert_delete_on_closed(action, data, existing, db, t, fault) ==
    IF existing # {}
    THEN LET old == CHOOSE r \in existing : TRUE
             new == UpdatedPullRequest(old, data, t)
             db1 == Db((db.prs \ {old})
                           \cup (IF action = "closed" THEN {} ELSE {new}),
                       db.files, db.next_file_id)
             fs  == handle_files(action, existing, old.id, db1, fault)
         IN  IF fault = "pr_commit"
             THEN Raised("Failed to update existing PR", {}, db, TRUE)
             ELSE Outcome("success", "", {}, "Updated", old.id,
                          data.pr_number, action,
                          Db(db1.prs, fs.files, fs.next_file_id), TRUE,
                          fs.warning)
    ELSE LET new == NewPullRequest(data, NextPrId(db.prs))
             db1 == Db(db.prs \cup {new}, db.files, db.next_file_id)
             fs  == handle_files(action, existing, new.id, db1, fault)
         IN  IF fault = "pr_commit" \/ UniqueViolation(db.prs, new)
             THEN Raised("Failed to create new PR", {}, db, TRUE)
             ELSE Outcome("success", "", {}, "Created", new.id,
                          data.pr_number, action,
                          Db(db1.prs, fs.files, fs.next_file_id), TRUE,
                          fs.warning)

\* Lines 218-245: the PR insert or update, with its own commit, followed by
\* the file step and the success dict.
upsert(action, data, existing, db, t, fault) ==
    IF existing # {}
    THEN LET old == CHOOSE r \in existing : TRUE
             new == UpdatedPullRequest(old, data, t)
             db1 == Db((db.prs \ {old}) \cup {new}, db.files,
                       db.next_file_id)
             fs  == handle_files(action, existing, old.id, db1, fault)
         IN  IF fault = "pr_commit"
             THEN Raised("Failed to update existing PR", {}, db, TRUE)
             ELSE Outcome("success", "", {}, "Updated", old.id,
                          data.pr_number, action,
                          Db(db1.prs, fs.files, fs.next_file_id), TRUE,
                          fs.warning)
    ELSE LET new == NewPullRequest(data, NextPrId(db.prs))
             db1 == Db(db.prs \cup {new}, db.files, db.next_file_id)
             fs  == handle_files(action, existing, new.id, db1, fault)
         IN  IF fault = "pr_commit" \/ UniqueViolation(db.prs, new)
             THEN Raised("Failed to create new PR", {}, db, TRUE)
             ELSE Outcome("success", "", {}, "Created", new.id,
                          data.pr_number, action,
                          Db(db1.prs, fs.files, fs.next_file_id), TRUE,
                          fs.warning)

\* Lines 210-288: the lookup by (pr_number, repository) and what follows it.
persist(action, data, db, t, fault) ==
    LET existing == SelectPR(db.prs, data.repository, data.pr_number)
    IN  IF fault = "lookup"
        THEN Raised("select failed", {}, db, TRUE)
        ELSE IF Cardinality(existing) > 1
        THEN Raised("Multiple rows were found", {}, db, TRUE)
        ELSE upsert(action, data, existing, db, t, fault)

\* A handler that checks the required fields only after the upsert.
handle_validate_after_write(payload, db, t, fault) ==
    LET action == Get(payload.action, "")
        parsed == parse_pull_request_data(payload, t)
        data   == parsed.data
        out    == persist(action, data, db, t, fault)
    IN  IF action = ""
        THEN Raised("Missing 'action' field in webhook payload", {"action"},
                    db, FALSE)
        ELSE IF action \notin HandledActions
        THEN Outcome("ignored", "", {}, "", 0, 0, action, db, FALSE, FALSE)
        ELSE IF ~parsed.ok
        THEN Raised(parsed.error, parsed.names, db, FALSE)
        ELSE IF missing_fields(data) # {} /\ out.outcome = "success"
        THEN Raised("Missing required fields", missing_fields(data), out.db,
                    TRUE)
        ELSE out

\* A handler that normalises the payload before it looks at the action.
handle_parse_first(payload, db, t, fault) ==
    LET action == Get(payload.action, "")
        parsed == parse_pull_request_data(payload, t)
        data   == parsed.data
    IN  IF action = ""
        THEN Raised("Missing 'action' field in webhook payload", {"action"},
                    db, FALSE)
        ELSE IF ~parsed.ok
        THEN Raised(parsed.error, parsed.names, db, FALSE)
        ELSE IF action \notin HandledActions
        THEN Outcome("ignored", "", {}, "", 0, 0, action, db, FALSE, FALSE)
        ELSE IF missing_fields(data) # {}
        THEN Raised("Missing required fields", missing_fields(data), db,
                    parsed.read_clock)
        ELSE persist(action, data, db, t, fault)

\* A handler without the test of a missing action: the action filter takes
\* an absent or empty action for one it does not handle.
handle_without_action_check(payload, db, t, fault) ==
    LET action == Get(payload.action, "")
        parsed == parse_pull_request_data(payload, t)
        data   == parsed.data
    IN  IF action \notin HandledActions
        THEN Outcome("ignored", "", {}, "", 0, 0, action, db, FALSE, FALSE)
        ELSE IF ~parsed.ok
        THEN Raised(parsed.error, parsed.names, db, FALSE)
        ELSE IF missing_fields(data) # {}
        THEN Raised("Missing required fields", missing_fields(data), db,
                    parsed.read_clock)
        ELSE persist(action, data, db, t, fault)

\* handle_pull_request_event(payload, db) at processing time t; fault names
\* the store call that fails in this request, if any.
handle_pull_request_event(payload, db, t, fault) ==
    LET action == Get(payload.action, "")
        parsed == parse_pull_request_data(payload, t)
        data   == parsed.data
    IN  IF action = ""
        THEN Raised("Missing 'action' field in webhook payload", {"action"},
                    db, FALSE)
        ELSE IF action \notin HandledActions
        THEN Outcome("ignored", "", {}, "", 0, 0, action, db, FALSE, FALSE)
        ELSE IF ~parsed.ok
        THEN Raised(parsed.error, parsed.names, db, FALSE)
        ELSE IF missing_fields(data) # {}
        THEN Raised("Missing required fields", missing_fields(data), db,
                    parsed.read_clock)
        ELSE persist(action, data, db, t, fault)

(* --------------------------- the orchestrator -------------------------- *)

\* A response: the HTTP status code and the fields of its body that the
\* properties read.  warning records the file-step warning that is printed.
Response(code, status, error, cause, names, message, pr_id, pr_number, action, received, warning) ==
    [code |-> code, status |-> status, error |-> error, cause |-> cause,
     names |-> names, message |-> message, pr_id |-> pr_id,
     pr_number |-> pr_number, action |-> action, received |-> received,
     warning |-> warning]

\* raise HTTPException(status_code=code, detail={"error": error, ...}).
HttpError(code, error, cause) ==
    Response(code, "error", error, cause, {}, "", 0, 0, "", "", FALSE)

NoResponse == Response(0, "none", "", "", {}, "", 0, 0, "", "", FALSE)

Reply(response, db, read_clock) ==
    [resp |-> response, db |-> db, read_clock |-> read_clock]

\* The answer to what handle_pull_request_event returned or raised.
handler_reply(payload, out) ==
    IF out.outcome = "raise"
    THEN Reply(Response(500, "error", "Failed to process webhook event",
                        out.error, out.names, "", 0, 0,
                        Get(payload.action, "unknown"), "", FALSE),
               out.db, out.read_clock)
    ELSE IF out.outcome = "ignored"
    THEN Reply(Response(200, "ignored", "", "", {}, "Action not handled", 0,
                        0, "", out.action, FALSE),
               out.db, out.read_clock)
    ELSE Reply(Response(200, "success", "", "", {}, out.message, out.pr_id,
                        out.pr_number, out.action, "", out.warning),
               out.db, out.read_clock)

\* The outer except Exception of github_webhook.
Unexpected(cause, db) ==
    Reply(HttpError(500, "Unexpected error in webhook handler", cause), db,
          FALSE)

\* A router that looks for the pull_request key before the event type.
route_filter_late(request, db, t, fault) ==
    LET body    == request.body
        payload == body.payload
        event   == Get(request.event, "")
    IN  IF event = ""
        THEN Reply(HttpError(400, "Missing event type", ""), db, FALSE)
        ELSE IF body.kind = "array"
        THEN Unexpected("AttributeError", db)
        ELSE IF payload.pull_request = "absent"
        THEN Reply(HttpError(400, "Missing pull request data", ""), db, FALSE)
        ELSE IF event # "pull_request"
        THEN Reply(Response(200, "ignored", "", "", {},
                            "Event type not handled", 0, 0, "", event, FALSE),
                   db, FALSE)
        ELSE handler_reply(payload,
                           handle_pull_request_event(payload, db, t, fault))

\* Lines 323-372 of github_webhook: the event-type header, the pull_request
\* key and the call of the handler.  An array body has no keys(), so building
\* the detail of the 400 raises AttributeError.
route(request, db, t, fault) ==
    LET body    == request.body
        payload == body.payload
        event   == Get(request.event, "")
    IN  IF event = ""
        THEN Reply(HttpError(400, "Missing event type", ""), db, FALSE)
        ELSE IF event # "pull_request"
        THEN Reply(Response(200, "ignored", "", "", {},
                            "Event type not handled", 0, 0, "", event, FALSE),
                   db, FALSE)
        ELSE IF body.kind = "array"
        THEN Unexpected("AttributeError", db)
        ELSE IF payload.pull_request = "absent"
        THEN Reply(HttpError(400, "Missing pull request data", ""), db, FALSE)
        ELSE handler_reply(payload,
                           handle_pull_request_event(payload, db, t, fault))

\* POST /webhooks/github: github_webhook(request, db).  json.loads raises
\* JSONDecodeError on malformed text and UnicodeDecodeError, which the inner
\* except does not catch, on bytes it cannot decode.
github_webhook(request, secret, db, t, fault) ==
    LET body    == request.body
        verdict == verify_signature(secret, request.signature, body)
    IN  IF body.kind = "empty"
        THEN Reply(HttpError(400, "Empty payload", ""), db, FALSE)
        ELSE IF body.kind = "malformed"
        THEN Reply(HttpError(400, "Invalid JSON payload", ""), db, FALSE)
        ELSE IF body.kind = "invalid_utf8"
        THEN Unexpected("UnicodeDecodeError", db)
        ELSE IF verdict = "raise"
        THEN Unexpected("TypeError", db)
        ELSE IF verdict = "reject"
        THEN Reply(HttpError(401, "Invalid webhook signature", ""), db, FALSE)
        ELSE route(request, db, t, fault)

(* ------------------------------ POST /prs ------------------------------ *)

\* A create_pull_request without the lookup of the (pr_number, repository)
\* pair: a duplicate is left to the constraints of the table.
create_without_lookup(pr, db, t, fault) ==
    LET data == [title |-> pr.title, status |-> "open", author |-> pr.author,
                 repository |-> pr.repository, pr_number |-> pr.pr_number,
                 created_at |-> t, updated_at |-> t, closed_at |-> {},
                 merged_at |-> {}]
        new  == NewPullRequest(data, NextPrId(db.prs))
        missing == {f \in {"title", "author", "repository"} : pr[f] = ""}
    IN  IF missing # {}
        THEN Reply(Response(400, "error", "Missing required fields", "",
                            missing, "", 0, 0, "", "", FALSE), db, TRUE)
        ELSE IF fault = "pr_commit" \/ UniqueViolation(db.prs, new)
        THEN Reply(HttpError(500, "Failed to create pull request", ""), db,
                   TRUE)
        ELSE Reply(Response(200, "success", "", "", {}, "", new.id,
                            pr.pr_number, "", "", FALSE),
                   Db(db.prs \cup {new}, db.files, db.next_file_id), TRUE)

\* create_pull_request(pr, db): the row gets the model's defaults (status
\* OPEN, created_at and updated_at from the clock at time t).
create_pull_request(pr, db, t, fault) ==
    LET existing == SelectPR(db.prs, pr.repository, pr.pr_number)
        data == [title |-> pr.title, status |-> "open", author |-> pr.author,
                 repository |-> pr.repository, pr_number |-> pr.pr_number,
                 created_at |-> t, updated_at |-> t, closed_at |-> {},
                 merged_at |-> {}]
        new  == NewPullRequest(data, NextPrId(db.prs))
        missing == {f \in {"title", "author", "repository"} : pr[f] = ""}
    IN  IF missing # {}
        THEN Reply(Response(400, "error", "Missing required fields", "",
                            missing, "", 0, 0, "", "", FALSE), db, TRUE)
        ELSE IF fault = "lookup" \/ Cardinality(existing) > 1
        THEN Reply(HttpError(500, "Failed to create pull request", ""), db,
                   TRUE)
        ELSE IF existing # {}
        THEN Reply(Response(409, "error", "Pull request already exists", "",
                            {}, "", (CHOOSE r \in existing : TRUE).id,
                            pr.pr_number, "", "", FALSE), db, TRUE)
        ELSE IF fault = "pr_commit" \/ UniqueViolation(db.prs, new)
        THEN Reply(HttpError(500, "Failed to create pull request", ""), db,
                   TRUE)
        ELSE Reply(Response(200, "success", "", "", {}, "", new.id,
                            pr.pr_number, "", "", FALSE),
                   Db(db.prs \cup {new}, db.files, db.next_file_id), TRUE)

(* ------------------- GET /prs/{pr_id}, GET /prs/{pr_id}/files ---------- *)

\* get_pull_request(pr_id, db): the row with that id.
get_pull_request(pr_id, db, fault) ==
    LET found == {r \in db.prs : r.id = pr_id}
    IN  IF pr_id <= 0
        THEN Reply(HttpError(400, "Invalid PR ID", ""), db, FALSE)
        ELSE IF fault = "lookup"
        THEN Reply(HttpError(500, "Failed to fetch pull request", ""), db,
                   FALSE)
        ELSE IF found = {}
        THEN Reply(HttpError(404, "Pull request not found", ""), db, FALSE)
        ELSE Reply(Response(200, "success", "", "", {}, "", pr_id,
                            (CHOOSE r \in found : TRUE).pr_number, "", "",
                            FALSE), db, FALSE)

\* get_pr_files(pr_id, db): the File rows of the row with that id; names
\* holds their filenames.
get_pr_files(pr_id, db, fault) ==
    LET found == {r \in db.prs : r.id = pr_id}
    IN  IF pr_id <= 0
        THEN Reply(HttpError(400, "Invalid PR ID", ""), db, FALSE)
        ELSE IF fault = "lookup"
        THEN Reply(HttpError(500, "Failed to fetch files", ""), db, FALSE)
        ELSE IF found = {}
        THEN Reply(HttpError(404, "Pull request not found", ""), db, FALSE)
        ELSE Reply(Response(200, "success", "", "",
                            {f.filename : f \in FilesOf(db.files, pr_id)},
                            "", pr_id, 0, "", "", FALSE), db, FALSE)

(* ------------------------- init_db.insert_test_data -------------------- *)

test_pr(id, t) ==
    [id |-> id, title |-> "Add new feature for user authentication",
     status |-> "open", author |-> "john_doe",
     repository |-> "my-awesome-app", pr_number |-> 123,
     created_at |-> t, updated_at |-> t, closed_at |-> {},
     merged_at |-> {}]

test_files(first_id, pr_id) ==
    {[id |-> first_id, pull_request_id |-> pr_id, filename |-> "auth.py",
      status |-> "added", additions |-> 150, deletions |-> 0,
      changes |-> 150],
     [id |-> first_id + 1, pull_request_id |-> pr_id,
      filename |-> "models.py", status |-> "modified", additions |-> 25,
      deletions |-> 10, changes |-> 35],
     [id |-> first_id + 2, pull_request_id |-> pr_id,
      filename |-> "config.py", status |-> "added", additions |-> 80,
      deletions |-> 0, changes |-> 80]}

\* insert_test_data(): the PR is committed, then its three files; a refused
\* insert is rolled back and reported on the console.
insert_test_data(db, t) ==
    LET new == test_pr(NextPrId(db.prs), t)
    IN  IF UniqueViolation(db.prs, new)
        THEN db
        ELSE Db(db.prs \cup {new},
                db.files \cup test_files(db.next_file_id, new.id),
                db.next_file_id + 3)

(* ------------------------------ requests ------------------------------- *)

\* The title, state and timestamps an event may carry.
Profiles ==
    {[title |-> "Add auth", state |-> "open",
      created_at |-> Iso(0), updated_at |-> Iso(0),
      closed_at |-> NoStamp("absent"), merged_at |-> NoStamp("absent")],
     [title |-> "Add auth", state |-> "closed",
      created_at |-> Iso(0), updated_at |-> Iso(0),
      closed_at |-> Iso(0), merged_at |-> NoStamp("null")],
     [title |-> "Fix bug", state |-> "merged",
      created_at |-> Iso(MaxClock + 1), updated_at |-> Iso(0),
      closed_at |-> Iso(0), merged_at |-> Iso(0)],
     [title |-> "Fix bug", state |-> Absent,
      created_at |-> NoStamp("absent"), updated_at |-> NoStamp("absent"),
      closed_at |-> NoStamp("text"), merged_at |-> NoStamp("number")],
     [title |-> "Add auth", state |-> "draft",
      created_at |-> Iso(0), updated_at |-> Iso(MaxClock + 1),
      closed_at |-> NoStamp("null"), merged_at |-> NoStamp("absent")]}

EventPayload(action, repository, number, profile) ==
    Payload(action, "object", profile.title, "alice", repository, {number},
            profile.state, profile.created_at, profile.updated_at,
            profile.closed_at, profile.merged_at)

\* Events with a handled action and every required field.
ValidEvents ==
    {EventPayload(a, r, n, p) :
        a \in HandledActions, r \in Repositories, n \in PrNumbers,
        p \in Profiles}

\* Scenario A of the specification, with each action a payload may carry.
ScenarioA(action) ==
    EventPayload(action, "acme/app", 42,
                 [title |-> "Add auth", state |-> "open",
                  created_at |-> Iso(0), updated_at |-> Iso(0),
                  closed_at |-> NoStamp("absent"),
                  merged_at |-> NoStamp("absent")])

AnyAction == HandledActions \cup {"edited", "", Absent}

\* ScenarioA with one part of it missing, empty or zero.
Defects(e) ==
    {[e EXCEPT !.title = Absent], [e EXCEPT !.title = ""],
     [e EXCEPT !.login = Absent], [e EXCEPT !.full_name = Absent],
     [e EXCEPT !.number = {}], [e EXCEPT !.number = {0}],
     [e EXCEPT !.pull_request = "absent"],
     [e EXCEPT !.pull_request = "empty"]}

OtherEvents ==
    {ScenarioA(a) : a \in AnyAction \ HandledActions}
        \cup UNION {Defects(ScenarioA(a)) : a \in AnyAction}

WebhookRequest(body, signature, event) ==
    [kind |-> "webhook", body |-> body, signature |-> signature,
     event |-> event]

\* Deliveries as GitHub sends them: signed with the shared secret, with the
\* pull_request event type.
EventRequests ==
    {WebhookRequest(Body("object", e),
                    generate_signature(Body("object", e), SECRET_TOKEN),
                    "pull_request") :
        e \in ValidEvents \cup OtherEvents}

GateBodies ==
    {EmptyBody, Body("malformed", NoPayload), Body("invalid_utf8", NoPayload),
     Body("array", NoPayload), Body("object", ScenarioA("opened")),
     Body("object", [ScenarioA("edited") EXCEPT !.title = Absent]),
     Body("object", [ScenarioA("opened") EXCEPT !.pull_request = "absent"])}

\* The signature headers a delivery of body may carry.
Signatures(body) ==
    {OtherHeader("absent"), OtherHeader("ascii"), OtherHeader("non_ascii"),
     generate_signature(body, SECRET_TOKEN),
     generate_signature(body, WRONG_SECRET),
     generate_signature(Body("object", ScenarioA("closed")), SECRET_TOKEN)}

\* Deliveries with every signature header and event-type header.
GateRequests ==
    UNION {{WebhookRequest(b, sg, ev) :
                sg \in Signatures(b),
                ev \in {Absent, "", "pull_request", "push"}} :
           b \in GateBodies}

WebhookRequests == EventRequests \cup GateRequests

\* Bodies of POST /prs.
PostRequests ==
    {[kind |-> "post_prs",
      pr |-> [title |-> ti, author |-> au, repository |-> r,
              pr_number |-> n]] :
        ti \in {"", "Add auth"}, au \in {"", "alice"},
        r \in Repositories \cup {""}, n \in PrNumbers}

\* The ids of the path of GET /prs/{pr_id} and GET /prs/{pr_id}/files: not
\* positive, stored, and never stored.
PathIds == {0, 1, 2, 4}

GetRequests ==
    {[kind |-> k, pr_id |-> i] : k \in {"get_pr", "get_files"}, i \in PathIds}

NoRequest == [kind |-> "none"]

\* The store call that fails while a request is handled.
Faults == {"none", "lookup", "pr_commit", "file_step"}

(* ------------------------------ behaviour ------------------------------ *)

\* The tables as create_db_and_tables leaves them at startup.
EmptyDb == Db({}, {}, 1)

\* A session that holds nothing: get_db closes the session of every request
\* when its handler is done.
NoSession ==
    [action |-> "", data |-> NoData, existing |-> {}, pending |-> NoData,
     pr_id |-> 0, message |-> "", file_rows |-> {}, pr_committed |-> FALSE]

\* The service starts on a database that the application created empty or
\* that python init_db.py created and filled, at time 0; the handler is
\* built from GITHUB_WEBHOOK_SECRET, unset or set.
Init ==
    /\ secret_token \in
          {HandlerInit(env, env) : env \in {"", SECRET_TOKEN, WRONG_SECRET}}
    /\ \E db \in {EmptyDb, insert_test_data(EmptyDb, 0)} :
          /\ prs = db.prs
          /\ files = db.files
          /\ next_file_id = db.next_file_id
    /\ now = 0
    /\ pc = "idle"
    /\ req = NoRequest
    /\ resp = NoResponse
    /\ session = NoSession

\* A delivery arrives at POST /webhooks/github.
ReceiveWebhook ==
    /\ pc = "idle"
    /\ now < MaxClock
    /\ \E r \in WebhookRequests : req' = r
    /\ pc' = "received"
    /\ UNCHANGED <<secret_token, prs, files, next_file_id, now, resp,
                   session>>

\* A body arrives at POST /prs.
ReceivePost ==
    /\ pc = "idle"
    /\ now < MaxClock
    /\ \E r \in PostRequests : req' = r
    /\ pc' = "received"
    /\ UNCHANGED <<secret_token, prs, files, next_file_id, now, resp,
                   session>>

\* A GET /prs/{pr_id} or GET /prs/{pr_id}/files arrives.
ReceiveGet ==
    /\ pc = "idle"
    /\ now < MaxClock
    /\ \E r \in GetRequests : req' = r
    /\ pc' = "received"
    /\ UNCHANGED <<secret_token, prs, files, next_file_id, now, resp,
                   session>>

Commit(reply) ==
    /\ prs' = reply.db.prs
    /\ files' = reply.db.files
    /\ next_file_id' = reply.db.next_file_id
    /\ resp' = reply.resp
    /\ now' = IF reply.read_clock THEN now + 1 ELSE now
    /\ pc' = "responded"
    /\ UNCHANGED <<secret_token, req, session>>

\* github_webhook runs to completion on the delivery in flight.
HandleWebhook ==
    /\ pc = "received"
    /\ req.kind = "webhook"
    /\ \E fault \in Faults :
          Commit(github_webhook(req, secret_token,
                                Db(prs, files, next_file_id), now + 1, fault))

\* create_pull_request runs to completion on the body in flight.
HandlePost ==
    /\ pc = "received"
    /\ req.kind = "post_prs"
    /\ \E fault \in Faults :
          Commit(create_pull_request(req.pr, Db(prs, files, next_file_id),
                                     now + 1, fault))

\* get_pull_request runs to completion on the id in flight.
HandleGetPr ==
    /\ pc = "received"
    /\ req.kind = "get_pr"
    /\ \E fault \in Faults :
          Commit(get_pull_request(req.pr_id, Db(prs, files, next_file_id),
                                  fault))

\* get_pr_files runs to completion on the id in flight.
HandleGetFiles ==
    /\ pc = "received"
    /\ req.kind = "get_files"
    /\ \E fault \in Faults :
          Commit(get_pr_files(req.pr_id, Db(prs, files, next_file_id),
                              fault))

\* The response is sent and the session closed.
Respond ==
    /\ pc = "responded"
    /\ pc' = "idle"
    /\ req' = NoRequest
    /\ resp' = NoResponse
    /\ UNCHANGED <<secret_token, prs, files, next_file_id, now, session>>

Next ==
    \/ ReceiveWebhook
    \/ ReceivePost
    \/ ReceiveGet
    \/ HandleWebhook
    \/ HandlePost
    \/ HandleGetPr
    \/ HandleGetFiles
    \/ Respond

Spec == Init /\ [][Next]_vars

(* ------------------------- concurrent deliveries ----------------------- *)

\* The server processes: each has its own session and handles one delivery.
Workers == {1, 2}

\* Signed pull_request events for PR 123 of either repository, and one event
\* that the action filter ignores.
ConcRequests ==
    {WebhookRequest(Body("object", e),
                    generate_signature(Body("object", e), SECRET_TOKEN),
                    "pull_request") :
        e \in {EventPayload(a, r, 123, p) :
                  a \in HandledActions, r \in Repositories,
                  p \in {q \in Profiles : q.state \in {"open", Absent}}}
               \cup {ScenarioA("edited")}}

\* github_webhook up to the first store statement of the handler: the
\* response, or the one of a failing select when the lookup is reached.
before_store(request, secret, t) ==
    github_webhook(request, secret, EmptyDb, t, "lookup").resp

\* The UPDATE that the flush of a session emits for a row it loaded as old
\* and changed to pending: it sets the columns the session changed, in the
\* row that is stored under the id now.
FlushUpdate(current, old, pending) ==
    [f \in DOMAIN current |->
        IF pending[f] # old[f] THEN pending[f] ELSE current[f]]

\* The file step applies: lines 248 and 252.
FileStepApplies(action, existing) ==
    /\ action \in {"opened", "synchronize", "reopened"}
    /\ (existing = {} \/ action = "synchronize")

\* Worker w answers with the success dict of line 277.
Succeed(w, warning) ==
    /\ resp' = [resp EXCEPT ![w] =
          handler_reply(req[w].body.payload,
              Outcome("success", "", {}, session[w].message,
                      session[w].pr_id, session[w].data.pr_number,
                      session[w].action, EmptyDb, TRUE, warning)).resp]
    /\ pc' = [pc EXCEPT ![w] = "responded"]
    /\ session' = [session EXCEPT ![w] = NoSession]

\* Worker w rolls back and answers with the failure of lines 290-293.
Fail(w, cause) ==
    /\ resp' = [resp EXCEPT ![w] =
          handler_reply(req[w].body.payload,
                        Raised(cause, {}, EmptyDb, TRUE)).resp]
    /\ pc' = [pc EXCEPT ![w] = "responded"]
    /\ session' = [session EXCEPT ![w] = NoSession]

\* The database when the two deliveries arrive: empty, as python init_db.py
\* fills it, or holding the one PullRequest, without files, that an earlier
\* POST /prs stored.
ConcDbs ==
    {EmptyDb, insert_test_data(EmptyDb, 0),
     create_pull_request([title |-> "Add auth", author |-> "alice",
                          repository |-> "acme/app", pr_number |-> 123],
                         EmptyDb, 0, "none").db}

ConcInit ==
    /\ secret_token = HandlerInit(SECRET_TOKEN, "")
    /\ \E db \in ConcDbs :
          /\ prs = db.prs
          /\ files = db.files
          /\ next_file_id = db.next_file_id
    /\ now = 0
    /\ pc = [w \in Workers |-> "idle"]
    /\ req = [w \in Workers |-> NoRequest]
    /\ resp = [w \in Workers |-> NoResponse]
    /\ session = [w \in Workers |-> NoSession]

\* A delivery arrives at worker w.
CReceive(w) ==
    /\ pc[w] = "idle"
    /\ \E r \in ConcRequests : req' = [req EXCEPT ![w] = r]
    /\ pc' = [pc EXCEPT ![w] = "received"]
    /\ UNCHANGED <<secret_token, prs, files, next_file_id, now, resp,
                   session>>

\* The checks of github_webhook and, in the handler, the action filter and
\* the normalisation (lines 184-208), which touch no store.
CBegin(w) ==
    /\ pc[w] = "received"
    /\ LET payload == req[w].body.payload
           first   == before_store(req[w], secret_token, now + 1)
           parsed  == parse_pull_request_data(payload, now + 1)
       IN  IF first.cause = "select failed"
           THEN /\ session' = [session EXCEPT ![w] =
                      [NoSession EXCEPT !.action = payload.action,
                                        !.data = parsed.data]]
                /\ pc' = [pc EXCEPT ![w] = "lookup"]
                /\ now' = IF parsed.read_clock THEN now + 1 ELSE now
                /\ UNCHANGED resp
           ELSE /\ resp' = [resp EXCEPT ![w] = first]
                /\ pc' = [pc EXCEPT ![w] = "responded"]
                /\ UNCHANGED <<session, now>>
    /\ UNCHANGED <<secret_token, prs, files, next_file_id, req>>

\* A lookup that locks the key (SELECT ... FOR UPDATE): it waits while
\* another session is between its own lookup and its commit.
CLookupForUpdate(w) ==
    /\ pc[w] = "lookup"
    /\ \A v \in Workers \ {w} : pc[v] \notin {"write", "commit"}
    /\ LET existing == SelectPR(prs, session[w].data.repository,
                                session[w].data.pr_number)
       IN  \/ /\ Cardinality(existing) <= 1
              /\ session' = [session EXCEPT ![w].existing = existing]
              /\ pc' = [pc EXCEPT ![w] = "write"]
              /\ UNCHANGED resp
           \/ Fail(w, IF Cardinality(existing) > 1
                      THEN "Multiple rows were found" ELSE "select failed")
    /\ UNCHANGED <<secret_token, prs, files, next_file_id, now, req>>

\* Line 216: the select of the committed row with the key, or its failure.
CLookup(w) ==
    /\ pc[w] = "lookup"
    /\ LET existing == SelectPR(prs, session[w].data.repository,
                                session[w].data.pr_number)
       IN  \/ /\ Cardinality(existing) <= 1
              /\ session' = [session EXCEPT ![w].existing = existing]
              /\ pc' = [pc EXCEPT ![w] = "write"]
              /\ UNCHANGED resp
           \/ Fail(w, IF Cardinality(existing) > 1
                      THEN "Multiple rows were found" ELSE "select failed")
    /\ UNCHANGED <<secret_token, prs, files, next_file_id, now, req>>

\* Lines 221-224 or 236-237: the session changes the row it loaded, reading
\* the clock, or adds a new one; nothing is sent to the store yet.
CWrite(w) ==
    /\ pc[w] = "write"
    /\ LET ses == session[w]
           old == CHOOSE r \in ses.existing : TRUE
       IN  IF ses.existing # {}
           THEN /\ session' = [session EXCEPT ![w] =
                      [ses EXCEPT !.pending =
                                      UpdatedPullRequest(old, ses.data,
                                                         now + 1),
                                  !.pr_id = old.id,
                                  !.message = "Updated"]]
                /\ now' = now + 1
           ELSE /\ session' = [session EXCEPT ![w] =
                      [ses EXCEPT !.pending = NewPullRequest(ses.data, 0),
                                  !.message = "Created"]]
                /\ now' = now
    /\ pc' = [pc EXCEPT ![w] = "commit"]
    /\ UNCHANGED <<secret_token, prs, files, next_file_id, req, resp>>

\* Line 225 or 238: db.commit() flushes the UPDATE or the INSERT and commits,
\* or fails and is rolled back; the unique index refuses a second row with
\* the pr_number.
CCommit(w) ==
    /\ pc[w] = "commit"
    /\ LET ses == session[w]
           old == CHOOSE r \in ses.existing : TRUE
           new == [ses.pending EXCEPT !.id = NextPrId(prs)]
           id  == IF ses.existing # {} THEN old.id ELSE new.id
       IN  \/ /\ ses.existing # {} \/ ~UniqueViolation(prs, new)
              /\ prs' =
                    IF ses.existing # {}
                    THEN {IF r.id = old.id
                          THEN FlushUpdate(r, old, ses.pending) ELSE r :
                             r \in prs}
                    ELSE prs \cup {new}
              /\ IF FileStepApplies(ses.action, ses.existing)
                 THEN /\ session' = [session EXCEPT ![w].pr_id = id,
                                                    ![w].pr_committed = TRUE]
                      /\ pc' = [pc EXCEPT ![w] =
                            IF ses.existing # {} THEN "select_files"
                            ELSE "files_commit"]
                      /\ UNCHANGED resp
                 ELSE Succeed(w, FALSE)
           \/ /\ Fail(w, IF ses.existing # {}
                          THEN "Failed to update existing PR"
                          ELSE "Failed to create new PR")
              /\ UNCHANGED prs
    /\ UNCHANGED <<secret_token, files, next_file_id, now, req>>

\* Lines 255-258: the session loads the File rows of the PullRequest and
\* marks them deleted, or the select fails and the file step is given up.
CSelectFiles(w) ==
    /\ pc[w] = "select_files"
    /\ \/ /\ session' = [session EXCEPT ![w].file_rows =
                                FilesOf(files, session[w].pr_id)]
          /\ pc' = [pc EXCEPT ![w] = "files_commit"]
          /\ UNCHANGED resp
       \/ Succeed(w, TRUE)
    /\ UNCHANGED <<secret_token, prs, files, next_file_id, now, req>>

\* Lines 261-271: db.commit() flushes the DELETEs of the rows loaded and the
\* INSERT of the placeholder and commits, or fails and is rolled back.
CFilesCommit(w) ==
    /\ pc[w] = "files_commit"
    /\ \/ /\ files' = (files \ session[w].file_rows)
                        \cup {placeholder_file(next_file_id,
                                               session[w].pr_id)}
          /\ next_file_id' = next_file_id + 1
          /\ Succeed(w, FALSE)
       \/ /\ Succeed(w, TRUE)
          /\ UNCHANGED <<files, next_file_id>>
    /\ UNCHANGED <<secret_token, prs, now, req>>

\* An abort that leaves the DELETEs a session had pending applied, as a
\* session in autocommit mode would.
CAbortAutocommit(w) ==
    /\ pc[w] \in {"lookup", "write", "commit", "select_files",
                  "files_commit"}
    /\ pc' = [pc EXCEPT ![w] = "aborted"]
    /\ files' = files \ session[w].file_rows
    /\ UNCHANGED <<secret_token, prs, next_file_id, now, req, resp,
                   session>>

\* The processing of worker w is aborted between two store statements: the
\* request is cancelled or the process dies.  What its session has not
\* committed is rolled back and no response is sent; session[w] keeps what
\* the session had done.
CAbort(w) ==
    /\ pc[w] \in {"lookup", "write", "commit", "select_files",
                  "files_commit"}
    /\ pc' = [pc EXCEPT ![w] = "aborted"]
    /\ UNCHANGED <<secret_token, prs, files, next_file_id, now, req, resp,
                   session>>

ConcNext ==
    \E w \in Workers :
        \/ CReceive(w)
        \/ CBegin(w)
        \/ CLookup(w)
        \/ CWrite(w)
        \/ CCommit(w)
        \/ CSelectFiles(w)
        \/ CFilesCommit(w)
        \/ CAbort(w)

ConcSpec == ConcInit /\ [][ConcNext]_vars

(* ------------------- concurrent deliveries, scheduled fairly ----------- *)

\* The next statement of the delivery that worker w is handling.
CRun(w) ==
    \/ CBegin(w)
    \/ CLookup(w)
    \/ CWrite(w)
    \/ CCommit(w)
    \/ CSelectFiles(w)
    \/ CFilesCommit(w)

\* No request is cancelled and no process dies.
FairNext ==
    \E w \in Workers :
        \/ CReceive(w)
        \/ CRun(w)

\* The server keeps running every delivery it has received, and every store
\* call it makes returns: with its result or with an error.
FairSpec ==
    ConcInit /\ [][FairNext]_vars /\ \A w \in Workers : WF_vars(CRun(w))

(* ----------------------- one delivery, any timestamps ------------------ *)

\* What the four timestamp keys of a pull_request object may hold.
Stamps ==
    {NoStamp(k) : k \in {"absent", "null", "text", "number"}} \cup {Iso(0)}

\* Signed events for PR 123 of my-awesome-app, the key insert_test_data
\* stores, with every combination of the four timestamp keys.
StampRequests ==
    {WebhookRequest(Body("object", e),
                    generate_signature(Body("object", e), SECRET_TOKEN),
                    "pull_request") :
        e \in {Payload(a, "object", "Add auth", "alice", "my-awesome-app",
                       {123}, "closed", c, u, cl, m) :
                  a \in {"opened", "closed"}, c \in Stamps, u \in Stamps,
                  cl \in Stamps, m \in Stamps}}

\* The first delivery to a server just started.
ReceiveStamped ==
    /\ pc = "idle"
    /\ now = 0
    /\ \E r \in StampRequests : req' = r
    /\ pc' = "received"
    /\ UNCHANGED <<secret_token, prs, files, next_file_id, now, resp,
                   session>>

StampNext ==
    \/ ReceiveStamped
    \/ HandleWebhook
    \/ Respond

StampSpec == Init /\ [][StampNext]_vars

(* ------------------------------ properties ----------------------------- *)

\* A step in which github_webhook handles the delivery in flight.
WebhookStep ==
    pc = "received" /\ req.kind = "webhook" /\ pc' = "responded"

\* The delivery in flight or just answered is a webhook delivery that was
\* answered.
Answered == pc = "responded" /\ req.kind = "webhook"

\* The rows of table stored under the key the payload carries.
RowsOfKey(table, payload) ==
    {r \in table : r.repository = payload.full_name
                   /\ r.pr_number \in payload.number}

StoreUnchanged ==
    prs' = prs /\ files' = files /\ next_file_id' = next_file_id

\* C1: after any sequence of webhook deliveries and POST /prs calls, each
\* run to completion before the next starts, no two rows of pull_requests
\* carry the same (repository, pr_number).
C1_UniqueKey ==
    \A r1 \in prs : \A r2 \in prs :
        (r1.repository = r2.repository /\ r1.pr_number = r2.pr_number)
            => r1 = r2

\* A second event for a stored key has been handled: it updated the one row.
C1_Witness ==
    /\ Answered
    /\ resp.status = "success"
    /\ resp.message = "Updated"
    /\ Cardinality(RowsOfKey(prs, req.body.payload)) = 1

\* C2: a delivery answered with success inserted exactly one row and says
\* "Created" when no row carried its key, and inserted none and says
\* "Updated" when one did; the pr_id returned is the id of the row stored
\* under the key, and action and pr_number are the event's.
C2_UpsertResult ==
    [][(WebhookStep /\ resp'.status = "success") =>
        LET payload == req.body.payload
            before  == RowsOfKey(prs, payload)
            after   == RowsOfKey(prs', payload)
        IN  /\ before = {} =>
                /\ resp'.message = "Created"
                /\ prs \subseteq prs'
                /\ Cardinality(prs') = Cardinality(prs) + 1
            /\ before # {} =>
                /\ resp'.message = "Updated"
                /\ {r.id : r \in prs'} = {r.id : r \in prs}
                /\ Cardinality(prs') = Cardinality(prs)
            /\ {r.id : r \in after} = {resp'.pr_id}
            /\ resp'.action = payload.action
            /\ {resp'.pr_number} = payload.number]_vars

\* An event created a second row beside one stored earlier.
C2_Witness ==
    /\ Answered
    /\ resp.status = "success"
    /\ resp.message = "Created"
    /\ resp.pr_id = 2
    /\ Cardinality(prs) = 2

\* The signature header of the delivery in flight is the one GitHub computes
\* from the configured secret and the raw body.
WellSigned == req.signature = generate_signature(req.body, secret_token)

\* The body of the delivery in flight is not empty and is well-formed JSON.
BodyParses == req.body.kind \in {"object", "array"}

C4_SynchronizeReplaces ==
    [][(/\ WebhookStep
        /\ req.body.payload.action = "synchronize"
        /\ RowsOfKey(prs, req.body.payload) # {}
        /\ resp'.status = "success"
        /\ ~resp'.warning) =>
        LET id    == resp'.pr_id
            owned == {f \in files' : f.pull_request_id = id}
        IN  /\ Cardinality(owned) = 1
            /\ \A f \in owned :
                  /\ f.filename = "files_updated"
                  /\ f.id \notin {g.id : g \in files}
            /\ {f \in files' : f.pull_request_id # id}
                  = {f \in files : f.pull_request_id # id}]_vars

\* A synchronize replaced the three files of a PullRequest by one while
\* another PullRequest kept its own file.
C4_Witness ==
    /\ Answered
    /\ req.body.payload.action = "synchronize"
    /\ resp.message = "Updated"
    /\ ~resp.warning
    /\ next_file_id = 6
    /\ Cardinality(FilesOf(files, resp.pr_id)) = 1
    /\ Cardinality(files) = 2

\* C5: with a secret configured, a delivery whose body is non-empty,
\* well-formed JSON and whose signature header is absent or is not the HMAC
\* of the raw body under the secret is answered 401.
C5_BadSignature401 ==
    (Answered /\ secret_token # "" /\ BodyParses /\ ~WellSigned)
        => resp.code = 401

\* C6: a delivery that ends in EmptyPayload, MalformedPayload, Unauthorized,
\* MissingEventType, MissingPullRequestData or a validation failure leaves
\* both tables as they were.
C6_FailFast ==
    [][(/\ WebhookStep
        /\ \/ resp'.error \in
                {"Empty payload", "Invalid JSON payload",
                 "Invalid webhook signature", "Missing event type",
                 "Missing pull request data"}
           \/ /\ resp'.error = "Failed to process webhook event"
              /\ resp'.names # {}) => StoreUnchanged]_vars

\* A validation failure of a signed pull_request event has been reported
\* beside a table that holds a row.
C6_Witness ==
    /\ Answered
    /\ resp.code = 500
    /\ resp.cause = "Missing required fields"
    /\ resp.names = {"pr_number"}
    /\ prs # {}

\* C7: under a configured secret s, a header that is the HMAC of body b'
\* under s' is accepted when s' = s and b' = b, the body delivered, and
\* rejected (401) when either differs, whatever the tables hold and whatever
\* else the request carries.
C7_VerifyHmac ==
    (/\ Answered
     /\ secret_token # ""
     /\ BodyParses
     /\ req.signature.kind = "sha256") =>
        (resp.error = "Invalid webhook signature"
            <=> ~(req.signature.key = secret_token
                    /\ req.signature.msg = req.body))

\* A header computed under the configured secret from another body has been
\* rejected.
C7_Witness ==
    /\ Answered
    /\ BodyParses
    /\ req.signature.kind = "sha256"
    /\ req.signature.key = secret_token
    /\ req.signature.msg # req.body
    /\ resp.code = 401

\* C8: with no secret configured no delivery is rejected by the verifier,
\* whatever its body and its signature header.
C8_OpenMode ==
    (Answered /\ secret_token = "") =>
        /\ resp.code # 401
        /\ resp.cause # "TypeError"

\* Without a secret, deliveries with no signature header have been handled
\* to success.
C8_Witness ==
    /\ Answered
    /\ secret_token = ""
    /\ req.signature.kind = "absent"
    /\ resp.status = "success"

\* C9: a delivery that passes the body and signature checks and whose
\* event-type header holds a value other than "pull_request" is answered 200
\* with status "ignored" and that value, and writes nothing.
C9_OtherEventIgnored ==
    [][(/\ WebhookStep
        /\ BodyParses
        /\ (secret_token = "" \/ WellSigned)
        /\ req.event \notin {Absent, "", "pull_request"}) =>
        /\ resp'.code = 200
        /\ resp'.status = "ignored"
        /\ resp'.received = req.event
        /\ StoreUnchanged]_vars

\* A signed push delivery whose body is not even an object has been ignored.
C9_Witness ==
    /\ Answered
    /\ req.event = "push"
    /\ req.body.kind = "array"
    /\ secret_token # ""
    /\ resp.status = "ignored"
    /\ resp.received = "push"

\* C10: a pull_request event that reaches the handler with an action outside
\* opened, synchronize, reopened and closed is answered 200 with status
\* "ignored" and that action, also when its pull_request data would not
\* normalise, and writes nothing.
C10_OtherActionIgnored ==
    [][(/\ WebhookStep
        /\ req.body.kind = "object"
        /\ (secret_token = "" \/ WellSigned)
        /\ req.event = "pull_request"
        /\ req.body.payload.pull_request # "absent"
        /\ req.body.payload.action \notin HandledActions \cup {Absent, ""}) =>
        /\ resp'.code = 200
        /\ resp'.status = "ignored"
        /\ resp'.received = req.body.payload.action
        /\ StoreUnchanged]_vars

\* An "edited" event without a title has been ignored.
C10_Witness ==
    /\ Answered
    /\ req.body.payload.action = "edited"
    /\ req.body.payload.title = Absent
    /\ resp.status = "ignored"
    /\ resp.received = "edited"

\* The delivery in flight passes the body and signature checks and is a
\* pull_request event whose payload holds a pull_request object.
ReachesHandler ==
    /\ req.body.kind = "object"
    /\ (secret_token = "" \/ WellSigned)
    /\ req.event = "pull_request"
    /\ req.body.payload.pull_request = "object"

\* The required fields that payload does not hold, or holds empty.
MissingIn(payload) ==
    (IF payload.title \in {Absent, ""} THEN {"title"} ELSE {})
        \cup (IF payload.login \in {Absent, ""} THEN {"author"} ELSE {})
        \cup (IF payload.full_name \in {Absent, ""} THEN {"repository"}
              ELSE {})
        \cup (IF payload.number = {} THEN {"pr_number"} ELSE {})

PassesGate == BodyParses /\ (secret_token = "" \/ WellSigned)

\* The delivery in flight has one of the validation or shape errors: an
\* empty body, a malformed body, no event-type header, no pull_request
\* object, or a required field of the pull request missing.
ShapeError ==
    \/ req.body.kind \in {"empty", "malformed"}
    \/ /\ PassesGate
       /\ \/ req.event \in {Absent, ""}
          \/ /\ req.event = "pull_request"
             /\ req.body.payload.pull_request = "absent"
          \/ /\ ReachesHandler
             /\ req.body.payload.action \in HandledActions
             /\ MissingIn(req.body.payload) # {}

\* C12: a delivery with a validation or shape error is answered with a
\* client-error status (4xx), and a server-error status never names a
\* missing field.
C12_ValidationIsClientError ==
    Answered =>
        /\ ShapeError => (resp.code >= 400 /\ resp.code < 500)
        /\ resp.code >= 500 => resp.names = {}

\* Row r is as a delivery of payload, handled at some time up to now with
\* no row stored under its key, inserted it.
CreatedFrom(r, payload) ==
    \E t1 \in 1..now :
        r = NewPullRequest(parse_pull_request_data(payload, t1).data, r.id)

\* C13: a valid "opened" payload delivered again right after the delivery
\* that created its row is answered "Updated" with the id of that row,
\* leaves one row under the key, and leaves it with an updated_at that is
\* not earlier than the one the first delivery stored, whatever updated_at
\* the payload carries.
C13_ReplayMonotone ==
    [][(/\ WebhookStep
        /\ ReachesHandler
        /\ req.body.payload.action = "opened"
        /\ MissingIn(req.body.payload) = {}
        /\ resp'.status = "success") =>
        \A r \in RowsOfKey(prs, req.body.payload) :
            CreatedFrom(r, req.body.payload) =>
                /\ resp'.message = "Updated"
                /\ resp'.pr_id = r.id
                /\ Cardinality(RowsOfKey(prs', req.body.payload)) = 1
                /\ \A r2 \in RowsOfKey(prs', req.body.payload) :
                      r2.updated_at >= r.updated_at]_vars

\* The causes with which a failed insert or update of a PullRequest row is
\* raised.
PrMutationFailures ==
    {"Failed to update existing PR", "Failed to create new PR"}

SoundStoreStep ==
    /\ WebhookStep
    /\ LET reply == github_webhook(req, secret_token,
                                   Db(prs, files, next_file_id), now + 1,
                                   "none")
       IN  resp' = reply.resp /\ prs' = reply.db.prs
               /\ files' = reply.db.files

\* The delivery in flight is a pull_request event with a handled action and
\* every required field, which reaches the upsert.
ValidEvent ==
    /\ ReachesHandler
    /\ req.body.payload.action \in HandledActions
    /\ MissingIn(req.body.payload) = {}
    /\ 0 \notin req.body.payload.number

\* C15: a valid event whose (repository, pr_number) matches no stored row
\* is inserted and answered "Created", also when a row with the same
\* pr_number is stored under another repository, and both rows are stored
\* afterwards.
C15_PairIsKey ==
    [][(/\ SoundStoreStep
        /\ ValidEvent
        /\ RowsOfKey(prs, req.body.payload) = {}) =>
        /\ resp'.status = "success"
        /\ resp'.message = "Created"
        /\ prs \subseteq prs'
        /\ Cardinality(RowsOfKey(prs', req.body.payload)) = 1]_vars

\* A step in which a request of the query surface is handled and no call of
\* the store fails for a reason outside the program.
SoundQueryStep ==
    /\ pc = "received" /\ pc' = "responded"
    /\ LET db == Db(prs, files, next_file_id)
       IN  \/ /\ req.kind = "post_prs"
              /\ resp' = create_pull_request(req.pr, db, now + 1,
                                              "none").resp
           \/ /\ req.kind = "get_pr"
              /\ resp' = get_pull_request(req.pr_id, db, "none").resp
           \/ /\ req.kind = "get_files"
              /\ resp' = get_pr_files(req.pr_id, db, "none").resp

\* C16: POST /prs with a title, an author and a (repository, pr_number)
\* that is stored is answered 409 and writes nothing; GET /prs/{id} and
\* GET /prs/{id}/files with a positive id that no row carries are answered
\* 404.
C16_QuerySurface ==
    [][SoundQueryStep =>
        /\ (/\ req.kind = "post_prs"
            /\ req.pr.title # "" /\ req.pr.author # ""
            /\ \E r \in prs : /\ r.repository = req.pr.repository
                               /\ r.pr_number = req.pr.pr_number) =>
                (resp'.code = 409 /\ StoreUnchanged)
        /\ (/\ req.kind \in {"get_pr", "get_files"}
            /\ req.pr_id > 0
            /\ \A r \in prs : r.id # req.pr_id) =>
                (resp'.code = 404 /\ StoreUnchanged)]_vars

\* A POST /prs for the key of the row that a webhook event created has been
\* answered 409.
C16_Witness ==
    /\ pc = "responded"
    /\ req.kind = "post_prs"
    /\ resp.code = 409
    /\ \E r \in prs : /\ r.id = resp.pr_id
                       /\ r.repository = req.pr.repository
                       /\ r.pr_number = req.pr.pr_number
                       /\ r.title = "Fix bug"

\* C17: the response reports the first check that fails, in the order empty
\* body, malformed body, signature, missing event-type header, event-type
\* filter, missing pull_request object, action filter, normalisation,
\* persistence: a badly signed delivery is answered 401 whatever its event
\* type, and a malformed body is answered "Invalid JSON payload" whatever
\* its signature.
C17_CheckOrder ==
    Answered =>
        LET payload == req.body.payload
        IN  IF req.body.kind = "empty"
            THEN resp.error = "Empty payload"
            ELSE IF req.body.kind \in {"malformed", "invalid_utf8"}
            THEN resp.error = "Invalid JSON payload"
            ELSE IF secret_token # "" /\ ~WellSigned
            THEN resp.code = 401
            ELSE IF req.event \in {Absent, ""}
            THEN resp.error = "Missing event type"
            ELSE IF req.event # "pull_request"
            THEN resp.status = "ignored" /\ resp.received = req.event
            ELSE IF req.body.kind = "array" \/ payload.pull_request = "absent"
            THEN resp.error = "Missing pull request data"
            ELSE IF payload.action \in {Absent, ""}
            THEN resp.names = {"action"}
            ELSE IF payload.action \notin HandledActions
            THEN resp.status = "ignored" /\ resp.received = payload.action
            ELSE IF \/ payload.pull_request = "empty"
                    \/ MissingIn(payload) # {}
                    \/ 0 \in payload.number
            THEN resp.status = "error" /\ resp.names # {}
            ELSE \/ resp.status = "success"
                 \/ resp.status = "error" /\ resp.names = {}

\* C18: an event answered "Updated" rewrites one row: its id, pr_number and
\* repository stay, its title, author, status and created_at become those
\* of the event, its updated_at becomes the processing time whatever
\* updated_at the payload carries, and every other row stays as it was.
C18_UpdateFrame ==
    [][(/\ WebhookStep
        /\ resp'.status = "success"
        /\ resp'.message = "Updated") =>
        LET payload == req.body.payload
        IN  \E old \in prs : \E new \in prs' :
                /\ prs' = (prs \ {old}) \cup {new}
                /\ old.id = resp'.pr_id
                /\ new.id = old.id
                /\ new.pr_number = old.pr_number
                /\ new.repository = old.repository
                /\ new.title = payload.title
                /\ new.author = payload.login
                /\ new.status = (IF payload.state \in PRStatus
                                 THEN payload.state ELSE "open")
                /\ new.created_at =
                      (IF payload.created_at.kind = "iso"
                       THEN payload.created_at.at ELSE now')
                /\ new.updated_at = now']_vars

\* An event that carries an updated_at later than every processing time has
\* updated one of two rows, at the second processing time.
C18_Witness ==
    /\ Answered
    /\ resp.message = "Updated"
    /\ req.body.payload.updated_at = Iso(MaxClock + 1)
    /\ Cardinality(prs) = 2
    /\ \E r \in prs : r.id = resp.pr_id /\ r.updated_at = MaxClock

\* C19: every stored PullRequest has updated_at >= created_at, after its
\* creation and after every update, whatever created_at and updated_at the
\* payloads carried.
C19_TimestampsMonotonic ==
    \A r \in prs : r.updated_at >= r.created_at

\* C20: while and after two deliveries are handled by two processes whose
\* lookups, inserts or updates and commits interleave in any order, no two
\* rows of pull_requests carry the same (repository, pr_number).
C20_NoDuplicateUnderRace ==
    \A r \in Repositories : \A n \in PrNumbers :
        Cardinality({x \in prs : x.repository = r /\ x.pr_number = n}) <= 1

\* Two deliveries for one key both found no row; one inserted it and was
\* answered Created, the insert of the other was refused.
C20_Witness ==
    /\ \A w \in Workers : pc[w] = "responded"
    /\ req[1].body.payload.full_name = req[2].body.payload.full_name
    /\ resp[1].message = "Created"
    /\ resp[2].cause = "Failed to create new PR"
    /\ Cardinality(prs) = 1

\* The PR upsert of the event of worker w is committed and its file step,
\* which applies, is not.
HalfApplied(w) ==
    /\ session[w].pr_committed
    /\ FileStepApplies(session[w].action, session[w].existing)
    /\ \E r \in prs : r.id = session[w].pr_id

C22_OneFileAfterRace ==
    (/\ \A w \in Workers :
            /\ pc[w] = "responded"
            /\ req[w].body.payload.action = "synchronize"
            /\ resp[w].status = "success"
            /\ resp[w].message = "Updated"
            /\ ~resp[w].warning
     /\ resp[1].pr_id = resp[2].pr_id) =>
        Cardinality(FilesOf(files, resp[1].pr_id)) = 1

\* C23, as claimed: an "opened" or "reopened" event handled with success for
\* a stored PullRequest deletes the File rows it owned and inserts new ones,
\* so that it owns only rows this event inserted.
C23_ReopenReplaces ==
    [][(/\ WebhookStep
        /\ req.body.payload.action \in {"opened", "reopened"}
        /\ RowsOfKey(prs, req.body.payload) # {}
        /\ resp'.status = "success"
        /\ ~resp'.warning) =>
        /\ FilesOf(files', resp'.pr_id) # {}
        /\ FilesOf(files', resp'.pr_id) \cap files = {}]_vars

\* C23, amended: an "opened" or "reopened" event handled with success for a
\* stored PullRequest runs no file step: no File row is deleted or inserted,
\* and the PullRequest owns the rows it owned before.
C23_ReopenKeepsFiles ==
    [][(/\ WebhookStep
        /\ req.body.payload.action \in {"opened", "reopened"}
        /\ RowsOfKey(prs, req.body.payload) # {}
        /\ resp'.status = "success") =>
        /\ resp'.message = "Updated"
        /\ ~resp'.warning
        /\ files' = files
        /\ next_file_id' = next_file_id]_vars

\* A "reopened" event has updated the PullRequest that owns three File
\* rows, which it still owns.
C23_Witness ==
    /\ Answered
    /\ req.body.payload.action = "reopened"
    /\ resp.message = "Updated"
    /\ Cardinality(FilesOf(files, resp.pr_id)) = 3

C25_ClosedKeepsFiles ==
    [][(WebhookStep /\ req.body.payload.action = "closed") =>
        /\ files' = files
        /\ next_file_id' = next_file_id
        /\ ~resp'.warning]_vars

\* A "closed" event has created a PullRequest that owns no File row, beside
\* the three files of another.
C25_Witness ==
    /\ Answered
    /\ req.body.payload.action = "closed"
    /\ resp.message = "Created"
    /\ FilesOf(files, resp.pr_id) = {}
    /\ Cardinality(files) = 3

\* C26: the row a webhook event inserts or updates has status "open",
\* "closed" or "merged" when the payload's state is that, and "open" for
\* every other state and for none; every stored status is one of the three.
C26_StatusMapped ==
    [][(WebhookStep /\ resp'.status = "success") =>
        /\ \A r \in prs' : r.status \in {"open", "closed", "merged"}
        /\ \A r \in prs' :
              r.id = resp'.pr_id =>
                  r.status =
                      CASE req.body.payload.state = "open" -> "open"
                        [] req.body.payload.state = "closed" -> "closed"
                        [] req.body.payload.state = "merged" -> "merged"
                        [] OTHER -> "open"]_vars

\* Scenario B: a "closed" event with state "closed" has updated a stored
\* row, whose status is "closed".
C26_Witness ==
    /\ Answered
    /\ req.body.payload.action = "closed"
    /\ req.body.payload.state = "closed"
    /\ resp.message = "Updated"
    /\ \E r \in prs : r.id = resp.pr_id /\ r.status = "closed"

\* C27: no delivery removes a row of pull_requests: every (repository,
\* pr_number) stored before a delivery is stored after it under the same
\* id, whatever the action of the delivery and whatever its outcome.
C27_NeverDeleted ==
    [][WebhookStep =>
        \A r \in prs : \E r2 \in prs' :
            /\ r2.id = r.id
            /\ r2.repository = r.repository
            /\ r2.pr_number = r.pr_number]_vars

\* The row stored first is still stored under id 1 after a "closed" event
\* for its key, the second delivery that reached the store.
C27_Witness ==
    /\ Answered
    /\ now > 1
    /\ req.body.payload.action = "closed"
    /\ resp.message = "Updated"
    /\ resp.pr_id = 1
    /\ \E r \in prs : r.id = 1 /\ r.status = "closed"

\* C28: in every reachable state every File row is owned by exactly one
\* stored PullRequest: its pull_request_id is the id of one row of
\* pull_requests.
C28_FilesOwned ==
    \A f \in files :
        Cardinality({r \in prs : r.id = f.pull_request_id}) = 1

\* A delivery has replaced the File rows of a stored PullRequest while the
\* rows of another PullRequest are stored as well.
C28_Witness ==
    /\ Answered
    /\ req.body.payload.action = "synchronize"
    /\ resp.message = "Updated"
    /\ ~resp.warning
    /\ \E f \in files :
          /\ f.filename = "files_updated"
          /\ f.pull_request_id = resp.pr_id
    /\ \E f \in files : f.pull_request_id # resp.pr_id

\* C29: a valid event that reaches the upsert, when no store call fails and
\* no stored row stands in the way of the insert, is answered with success
\* whatever its four timestamp keys hold; the row it writes has created_at
\* (and, when inserted, updated_at) at the processing time when the key is
\* absent or does not parse, and closed_at and merged_at unset when the key
\* is absent or does not parse.
C29_DateFallback ==
    [][(/\ SoundStoreStep
        /\ ValidEvent
        /\ \A r \in prs :
              r.pr_number \in req.body.payload.number
                  => r.repository = req.body.payload.full_name) =>
        LET payload == req.body.payload
        IN  /\ resp'.status = "success"
            /\ \E r \in prs' :
                  /\ r.id = resp'.pr_id
                  /\ payload.created_at.kind # "iso" => r.created_at = now'
                  /\ payload.updated_at.kind # "iso" => r.updated_at = now'
                  /\ r.updated_at \in {now', payload.updated_at.at}
                  /\ payload.closed_at.kind # "iso" => r.closed_at = {}
                  /\ payload.merged_at.kind # "iso" => r.merged_at = {}
                  /\ payload.closed_at.kind = "iso" =>
                        r.closed_at = {payload.closed_at.at}
                  /\ payload.merged_at.kind = "iso" =>
                        r.merged_at = {payload.merged_at.at}]_vars

\* An event whose created_at is text that does not parse, whose updated_at
\* is null, whose closed_at is a number and whose merged_at is text that
\* does not parse has inserted a row.
C29_Witness ==
    /\ Answered
    /\ req.body.payload.created_at.kind = "text"
    /\ req.body.payload.updated_at.kind = "null"
    /\ req.body.payload.closed_at.kind = "number"
    /\ req.body.payload.merged_at.kind = "text"
    /\ resp.status = "success"
    /\ resp.message = "Created"
    /\ \E r \in prs :
          /\ r.id = resp.pr_id
          /\ r.created_at = now
          /\ r.updated_at = now
          /\ r.closed_at = {}
          /\ r.merged_at = {}

\* C30, as claimed: a pull_request event with a handled action whose title,
\* author and repository full name are not empty and whose number is
\* present, whatever integer it is (0 included), passes the required-field
\* validation and is persisted when no store call fails and no stored row
\* stands in the way of the insert: it is answered with success and a row
\* is stored under its (repository, pr_number).
C30_AnyNumberPersisted ==
    [][(/\ SoundStoreStep
        /\ ReachesHandler
        /\ req.body.payload.action \in HandledActions
        /\ MissingIn(req.body.payload) = {}
        /\ \A r \in prs :
              r.pr_number \in req.body.payload.number
                  => r.repository = req.body.payload.full_name) =>
        /\ resp'.status = "success"
        /\ "pr_number" \notin resp'.names
        /\ RowsOfKey(prs', req.body.payload) # {}]_vars

\* C31: under fair scheduling, with store calls that each return or fail,
\* every delivery received is eventually answered, alone or beside another
\* delivery for the same key; the answer is a success, an ignored or an
\* error response and never changes afterwards; and a delivery in progress
\* can always take its next step, whatever the other delivery is doing.
C31_EveryDeliveryAnswered ==
    /\ \A w \in Workers : (pc[w] = "received") ~> (pc[w] = "responded")
    /\ [](\A w \in Workers :
            pc[w] = "responded" =>
                resp[w].status \in {"success", "ignored", "error"})
    /\ [][\A w \in Workers :
            pc[w] = "responded" =>
                pc'[w] = "responded" /\ resp'[w] = resp[w]]_vars
    /\ [](\A w \in Workers :
            pc[w] \in {"received", "lookup", "write", "commit",
                       "select_files", "files_commit"} => ENABLED CRun(w))

\* Two synchronize deliveries for the same stored key were in progress at
\* the same time and both are answered with success.
C31_Witness ==
    /\ \A w \in Workers :
          /\ pc[w] = "responded"
          /\ req[w].body.payload.action = "synchronize"
          /\ resp[w].status = "success"
          /\ resp[w].message = "Updated"
    /\ req[1].body.payload.full_name = req[2].body.payload.full_name
    /\ Cardinality(FilesOf(files, resp[1].pr_id)) = 2

\* C32: a pull_request event whose body is a JSON object with no action, or
\* an empty one, is answered with an error response, never with "ignored"
\* or "success", and no table changes, also when the rest of the payload is
\* a valid pull request.
C32_MissingActionFails ==
    [][(/\ WebhookStep
        /\ req.event = "pull_request"
        /\ req.body.kind = "object"
        /\ req.body.payload.action \in {Absent, ""}) =>
        /\ resp'.status = "error"
        /\ resp'.code \in {400, 401, 500}
        /\ StoreUnchanged]_vars

\* A signed event without action, with every required field of the pull
\* request, has reached the handler and was refused for the action.
C32_Witness ==
    /\ Answered
    /\ req.body.payload.action = Absent
    /\ MissingIn(req.body.payload) = {}
    /\ req.body.payload.pull_request = "object"
    /\ resp.code = 500
    /\ resp.cause = "Missing 'action' field in webhook payload"
    /\ resp.names = {"action"}
    /\ prs # {}

=============================================================================
